---- MODULE Spec2Model ----
(***************************************************************************)
(* A model of the tic-tac-toe engine of src/src/tictactoe.rs: the Cell,    *)
(* the Board of nine cells with process_turn / get_state / draw, and the   *)
(* Game with its turn counter, its State and take_turn.                    *)
(*                                                                         *)
(* Three specifications:                                                   *)
(*   SpecBoard     a Board used directly (as src/src/main.rs does), with   *)
(*                 any player char and any position string;                *)
(*   Spec          a Game on which take_turn is called without regard to   *)
(*                 its State (Game::take_turn has no guard);               *)
(*   SpecProtocol  a Game driven by the caller protocol: take_turn is      *)
(*                 called only while State is InProgress.                  *)
(***************************************************************************)
EXTENDS Integers, Sequences, FiniteSets, TLC

VARIABLES
    board,      \* Game.board / Board: the nine cells, by position label
    state,      \* Game.state
    turn,       \* Game.turn
    pc,         \* "idle": between take_turn calls; "loop": inside take_turn's loop
    player,     \* take_turn's local `player` while pc = "loop"
    op,         \* the last Board method called
    argPlayer,  \* its `player` argument (process_turn)
    argPos,     \* its `position` argument (process_turn)
    ret,        \* what it returned
    scenA,      \* accepted moves matched so far against ScenarioA, -1 once off it
    scenB       \* accepted moves matched so far against ScenarioB, -1 once off it

vars == <<board, state, turn, pc, player, op, argPlayer, argPos, ret, scenA, scenB>>

----------------------------------------------------------------------------
(* Values *)

\* enum Cell
Cell == {"Empty", "O", "X"}

\* enum State
State == {"InProgress", "Stalemate", "VictoryO", "VictoryX"}

\* the fields of struct Board
Labels == {"a0", "b0", "c0", "a1", "b1", "c1", "a2", "b2", "c2"}

\* position strings that match no arm of process_turn's match
InvalidPositions == {"a3"}

Positions == Labels \cup InvalidPositions

\* the chars process_turn and Cell::set accept
Players == {"o", "x"}

\* chars that match neither 'o' nor 'x'
InvalidPlayers == {"z"}

Chars == Players \cup InvalidPlayers

\* the char '\0' that get_state returns for "no winner"
NUL == "NUL"

\* no value: an argument or a local that is not set
None == "none"

----------------------------------------------------------------------------
(* Cell *)

\* impl Default for Cell
Cell_default == "Empty"

\* impl Display for Cell
Cell_fmt(cell) ==
    CASE cell = "Empty" -> " "
      [] cell = "O"     -> "O"
      [] cell = "X"     -> "X"

\* Cell::set without its test that the cell is Empty
Cell_set_Overwrite(cell, value) ==
    IF value = "o" THEN [ret |-> TRUE, cell |-> "O"]
    ELSE IF value = "x" THEN [ret |-> TRUE, cell |-> "X"]
    ELSE [ret |-> FALSE, cell |-> cell]

\* Cell::set: the pair of the returned bool and the cell afterwards
Cell_set(cell, value) ==
    IF cell # "Empty" THEN [ret |-> FALSE, cell |-> cell]
    ELSE IF value = "o" THEN [ret |-> TRUE, cell |-> "O"]
    ELSE IF value = "x" THEN [ret |-> TRUE, cell |-> "X"]
    ELSE [ret |-> FALSE, cell |-> cell]

----------------------------------------------------------------------------
(* Board *)

\* #[derive(Default)] struct Board
Board_default == [p \in Labels |-> Cell_default]

\* Board::draw: the four lines printed
draw(b) ==
    << "  A B C",
       <<"0", Cell_fmt(b["a0"]), Cell_fmt(b["b0"]), Cell_fmt(b["c0"])>>,
       <<"1", Cell_fmt(b["a1"]), Cell_fmt(b["b1"]), Cell_fmt(b["c1"])>>,
       <<"2", Cell_fmt(b["a2"]), Cell_fmt(b["b2"]), Cell_fmt(b["c2"])>> >>

\* Board::process_turn whose last arm is `_ => return self.a0.set(player)`
process_turn_DefaultArm(b, pl, position) ==
    IF pl \notin {"o", "x"} THEN [ret |-> FALSE, board |-> b]
    ELSE LET q == IF position \in Labels THEN position ELSE "a0"
             r == Cell_set(b[q], pl)
         IN  [ret |-> r.ret, board |-> [b EXCEPT ![q] = r.cell]]

\* Board::process_turn whose "a1" arm is `return self.a0.set(player)`
process_turn_WrongCell(b, pl, position) ==
    IF pl \notin {"o", "x"} THEN [ret |-> FALSE, board |-> b]
    ELSE IF position \in Labels
         THEN LET q == IF position = "a1" THEN "a0" ELSE position
                  r == Cell_set(b[q], pl)
              IN  [ret |-> r.ret, board |-> [b EXCEPT ![q] = r.cell]]
         ELSE [ret |-> FALSE, board |-> b]

\* Board::process_turn: the pair of the returned bool and the board afterwards
process_turn(b, pl, position) ==
    IF pl \notin {"o", "x"} THEN [ret |-> FALSE, board |-> b]
    ELSE IF position \in Labels
         THEN LET r == Cell_set(b[position], pl)
              IN  [ret |-> r.ret, board |-> [b EXCEPT ![position] = r.cell]]
         ELSE [ret |-> FALSE, board |-> b]

\* one arm of get_state's chain, as written for row 0
MatchRow0(cell) ==
    CASE cell = "Empty" -> NUL
      [] cell = "O"     -> "o"
      [] cell = "X"     -> "x"

\* one arm of get_state's chain, as written for the seven other lines
MatchOther(cell) ==
    CASE cell = "Empty" -> NUL
      [] cell = "O"     -> "x"
      [] cell = "X"     -> "o"

\* Board::get_state whose row-0 test is `self.a0 == self.b0` alone
get_state_RowZeroTwoCells(b) ==
    IF b["a0"] = b["b0"] THEN MatchRow0(b["a0"])
    ELSE IF b["a1"] = b["b1"] /\ b["a1"] = b["c1"] THEN MatchOther(b["a1"])
    ELSE IF b["a2"] = b["b2"] /\ b["a2"] = b["c2"] THEN MatchOther(b["a2"])
    ELSE IF b["a0"] = b["a1"] /\ b["a0"] = b["a2"] THEN MatchOther(b["a0"])
    ELSE IF b["b0"] = b["b1"] /\ b["b0"] = b["b2"] THEN MatchOther(b["b0"])
    ELSE IF b["c0"] = b["c1"] /\ b["c0"] = b["c2"] THEN MatchOther(b["c0"])
    ELSE IF b["a0"] = b["b1"] /\ b["a0"] = b["c2"] THEN MatchOther(b["a0"])
    ELSE IF b["a2"] = b["b1"] /\ b["a2"] = b["c0"] THEN MatchOther(b["a2"])
    ELSE NUL

\* Board::get_state without its last arm, the diagonal a2-b1-c0
get_state_NoSecondDiagonal(b) ==
    IF b["a0"] = b["b0"] /\ b["a0"] = b["c0"] THEN MatchRow0(b["a0"])
    ELSE IF b["a1"] = b["b1"] /\ b["a1"] = b["c1"] THEN MatchOther(b["a1"])
    ELSE IF b["a2"] = b["b2"] /\ b["a2"] = b["c2"] THEN MatchOther(b["a2"])
    ELSE IF b["a0"] = b["a1"] /\ b["a0"] = b["a2"] THEN MatchOther(b["a0"])
    ELSE IF b["b0"] = b["b1"] /\ b["b0"] = b["b2"] THEN MatchOther(b["b0"])
    ELSE IF b["c0"] = b["c1"] /\ b["c0"] = b["c2"] THEN MatchOther(b["c0"])
    ELSE IF b["a0"] = b["b1"] /\ b["a0"] = b["c2"] THEN MatchOther(b["a0"])
    ELSE NUL

\* Board::get_state
get_state(b) ==
    IF b["a0"] = b["b0"] /\ b["a0"] = b["c0"] THEN MatchRow0(b["a0"])
    ELSE IF b["a1"] = b["b1"] /\ b["a1"] = b["c1"] THEN MatchOther(b["a1"])
    ELSE IF b["a2"] = b["b2"] /\ b["a2"] = b["c2"] THEN MatchOther(b["a2"])
    ELSE IF b["a0"] = b["a1"] /\ b["a0"] = b["a2"] THEN MatchOther(b["a0"])
    ELSE IF b["b0"] = b["b1"] /\ b["b0"] = b["b2"] THEN MatchOther(b["b0"])
    ELSE IF b["c0"] = b["c1"] /\ b["c0"] = b["c2"] THEN MatchOther(b["c0"])
    ELSE IF b["a0"] = b["b1"] /\ b["a0"] = b["c2"] THEN MatchOther(b["a0"])
    ELSE IF b["a2"] = b["b1"] /\ b["a2"] = b["c0"] THEN MatchOther(b["a2"])
    ELSE NUL

----------------------------------------------------------------------------
(* Game *)

\* impl Default for State
State_default == "InProgress"

\* Game::get_player with 'x' in both arms of its match
get_player_AlwaysX(t) == IF t % 2 = 0 THEN "x" ELSE "x"

\* Game::get_player with the arms of its match exchanged
get_player_Swapped(t) == IF t % 2 = 0 THEN "x" ELSE "o"

\* Game::get_player
get_player(t) == IF t % 2 = 0 THEN "o" ELSE "x"

\* Game::set_state with `self.turn > 10` for `self.turn > 9`
set_state_OffByOne(b, st, t) ==
    LET g  == get_state(b)
        s1 == IF g = "o" THEN "VictoryO"
              ELSE IF g = "x" THEN "VictoryX"
              ELSE st
    IN  IF t > 10 THEN "Stalemate" ELSE s1

\* Game::set_state: the State afterwards
set_state(b, st, t) ==
    LET g  == get_state(b)
        s1 == IF g = "o" THEN "VictoryO"
              ELSE IF g = "x" THEN "VictoryX"
              ELSE st
    IN  IF t > 9 THEN "Stalemate" ELSE s1

----------------------------------------------------------------------------
(* The two example games of the specification, as <<player, position>> *)

ScenarioA ==
    << <<"x", "a0">>, <<"o", "b0">>, <<"x", "a1">>, <<"o", "b1">>, <<"x", "a2">> >>

ScenarioB ==
    << <<"x", "a0">>, <<"o", "b0">>, <<"x", "b1">>, <<"o", "a1">>, <<"x", "c0">>,
       <<"o", "c1">>, <<"x", "a2">>, <<"o", "c2">>, <<"x", "b2">> >>

\* the progress along `script` after the accepted move <<pl, position>>
Follow(script, k, pl, position) ==
    IF k >= 0 /\ k < Len(script) /\ script[k + 1] = <<pl, position>>
    THEN k + 1
    ELSE -1

----------------------------------------------------------------------------
(* Initial state: Game::default, nothing called yet *)

Init ==
    /\ board = Board_default
    /\ state = State_default
    /\ turn = 1
    /\ pc = "idle"
    /\ player = None
    /\ op = "new"
    /\ argPlayer = None
    /\ argPos = None
    /\ ret = None
    /\ scenA = 0
    /\ scenB = 0

gameVars == <<state, turn, pc, player, scenA, scenB>>

----------------------------------------------------------------------------
(* A Board used directly *)

BoardProcessTurn(pl, position) ==
    LET r == process_turn(board, pl, position)
    IN  /\ board' = r.board
        /\ op' = "process_turn"
        /\ argPlayer' = pl
        /\ argPos' = position
        /\ ret' = r.ret
        /\ UNCHANGED gameVars

BoardGetState ==
    /\ op' = "get_state"
    /\ argPlayer' = None
    /\ argPos' = None
    /\ ret' = get_state(board)
    /\ UNCHANGED <<board, gameVars>>

BoardDraw ==
    /\ op' = "draw"
    /\ argPlayer' = None
    /\ argPos' = None
    /\ ret' = draw(board)
    /\ UNCHANGED <<board, gameVars>>

BoardCall ==
    \E pl \in Chars, position \in Positions : BoardProcessTurn(pl, position)

NextBoard == BoardCall \/ BoardGetState \/ BoardDraw

SpecBoard == Init /\ [][NextBoard]_vars

----------------------------------------------------------------------------
(* A Game *)

\* take_turn up to its loop: get_player, the turn banner, board.draw()
TakeTurnBegin ==
    /\ pc = "idle"
    /\ pc' = "loop"
    /\ player' = get_player(turn)
    /\ op' = "draw"
    /\ argPlayer' = None
    /\ argPos' = None
    /\ ret' = draw(board)
    /\ UNCHANGED <<board, state, turn, scenA, scenB>>

\* take_turn with `self.turn += 1` inside its loop, before the test of
\* process_turn's result
TakeTurnMove_CountsRejected(position) ==
    /\ pc = "loop"
    /\ LET r == process_turn(board, player, position)
       IN  /\ board' = r.board
           /\ op' = "process_turn"
           /\ argPlayer' = player
           /\ argPos' = position
           /\ ret' = r.ret
           /\ turn' = turn + 1
           /\ IF r.ret
              THEN /\ state' = set_state(r.board, state, turn + 1)
                   /\ pc' = "idle"
                   /\ player' = None
                   /\ scenA' = Follow(ScenarioA, scenA, player, position)
                   /\ scenB' = Follow(ScenarioB, scenB, player, position)
              ELSE UNCHANGED <<state, pc, player, scenA, scenB>>

\* one pass of take_turn's loop on the line `position` read from stdin, and,
\* when process_turn accepts it, the rest of take_turn
TakeTurnMove(position) ==
    /\ pc = "loop"
    /\ LET r == process_turn(board, player, position)
       IN  /\ board' = r.board
           /\ op' = "process_turn"
           /\ argPlayer' = player
           /\ argPos' = position
           /\ ret' = r.ret
           /\ IF r.ret
              THEN /\ turn' = turn + 1
                   /\ state' = set_state(r.board, state, turn + 1)
                   /\ pc' = "idle"
                   /\ player' = None
                   /\ scenA' = Follow(ScenarioA, scenA, player, position)
                   /\ scenB' = Follow(ScenarioB, scenB, player, position)
              ELSE UNCHANGED <<turn, state, pc, player, scenA, scenB>>

TakeTurnLoop == \E position \in Positions : TakeTurnMove(position)

Next == TakeTurnBegin \/ TakeTurnLoop

Spec == Init /\ [][Next]_vars

\* the caller protocol: take_turn is called only while the game is in progress
ProtocolBegin == state = "InProgress" /\ TakeTurnBegin

NextProtocol == ProtocolBegin \/ TakeTurnLoop

SpecProtocol == Init /\ [][NextProtocol]_vars

\* the input collaborator supplies the label of an Empty cell
TakeTurnAccept ==
    \E position \in Labels : board[position] = "Empty" /\ TakeTurnMove(position)

\* the caller protocol with a caller that keeps calling take_turn while the
\* game is in progress and an input that eventually names an Empty cell
SpecProtocolFair ==
    /\ Init
    /\ [][NextProtocol]_vars
    /\ WF_vars(ProtocolBegin)
    /\ WF_vars(TakeTurnAccept)

TypeOK ==
    /\ board \in [Labels -> Cell]
    /\ state \in State
    /\ turn \in 1..10
    /\ pc \in {"idle", "loop"}
    /\ player \in Players \cup {None}
    /\ op \in {"new", "process_turn", "get_state", "draw"}
    /\ scenA \in -1..5
    /\ scenB \in -1..9

----------------------------------------------------------------------------
(* What the claims speak of *)

\* the eight lines, in the order row0, row1, row2, col-a, col-b, col-c,
\* diagonal a0-b1-c2, diagonal a2-b1-c0
WinLines ==
    << <<"a0", "b0", "c0">>, <<"a1", "b1", "c1">>, <<"a2", "b2", "c2">>,
       <<"a0", "a1", "a2">>, <<"b0", "b1", "b2">>, <<"c0", "c1", "c2">>,
       <<"a0", "b1", "c2">>, <<"a2", "b1", "c0">> >>

\* the cell value a player char writes
MarkOf(pl) == IF pl = "o" THEN "O" ELSE "X"

\* the char that names the owner of a cell value
CharOf(cell) == IF cell = "O" THEN "o" ELSE "x"

\* the victory of a player char
VictoryOf(pl) == IF pl = "o" THEN "VictoryO" ELSE "VictoryX"

\* line i of board b holds three times the mark m
Owns(b, i, m) == \A k \in 1..3 : b[WinLines[i][k]] = m

\* line i of board b is fully marked by one player
Marked(b, i) == Owns(b, i, "O") \/ Owns(b, i, "X")

AnyLine(b) == \E i \in 1..8 : Marked(b, i)

Full(b) == \A p \in Labels : b[p] # "Empty"

\* the mark of the first fully marked line, NUL when there is none
FirstLineMark(b) ==
    IF AnyLine(b)
    THEN LET i == CHOOSE j \in 1..8 :
                      Marked(b, j) /\ \A h \in 1..(j - 1) : ~Marked(b, h)
         IN  CharOf(b[WinLines[i][1]])
    ELSE NUL

\* the last Board call was a process_turn that returned r
Moved(r) == op = "process_turn" /\ ret = r

----------------------------------------------------------------------------
(* Claims *)

\* C1: on every board, get_state returns the mark of the first line, in the
\* order of WinLines, whose three cells hold the same non-Empty mark.
C1_FirstLineMark ==
    op = "get_state" => ret = FirstLineMark(board)

\* C2: between take_turn calls, the State is never InProgress while some line
\* is fully marked by one player.
C2_LineEndsGame ==
    (pc = "idle" /\ AnyLine(board)) => state # "InProgress"

\* C3: after the five accepted moves of scenario A (X a0, O b0, X a1, O b1,
\* X a2) the State is VictoryX and the turn counter is 6.
C3_ScenarioA ==
    scenA = 5 => (state = "VictoryX" /\ turn = 6)

\* C4: when the 9th accepted move completes a line for the player who made
\* it, the State after that take_turn is that player's victory.
C4_WinOnNinthMove ==
    ( /\ pc = "idle"
      /\ Moved(TRUE)
      /\ Full(board)
      /\ \E i \in 1..8 :
            /\ \E k \in 1..3 : WinLines[i][k] = argPos
            /\ Owns(board, i, MarkOf(argPlayer)) )
    => state = VictoryOf(argPlayer)

\* C5: once the State is Stalemate, VictoryO or VictoryX, no take_turn call
\* changes it.
C5_StateMonotonic ==
    [][state # "InProgress" => state' = state]_vars

\* C6: process_turn by 'o' or 'x' on a label whose cell is Empty returns true
\* and writes the player's mark; on a label whose cell is not Empty it
\* returns false and leaves the cell as it is; no call changes a non-Empty
\* cell.
C6_CellWriteOnce ==
    [][ /\ (op' = "process_turn" /\ argPlayer' \in Players /\ argPos' \in Labels)
           => IF board[argPos'] = "Empty"
              THEN ret' = TRUE /\ board'[argPos'] = MarkOf(argPlayer')
              ELSE ret' = FALSE /\ board'[argPos'] = board[argPos']
        /\ \A p \in Labels : board[p] # "Empty" => board'[p] = board[p]
      ]_vars

\* C6 witness: a process_turn on a cell that holds the other player's mark was
\* refused.
C6_Witness ==
    /\ Moved(FALSE)
    /\ argPlayer \in Players
    /\ argPos \in Labels
    /\ board[argPos] \notin {"Empty", MarkOf(argPlayer)}

\* C7: process_turn with a player other than 'o' and 'x', or with a position
\* that is none of the nine labels, returns false and changes no cell.
C7_InvalidInputRefused ==
    [][ (op' = "process_turn" /\ (argPlayer' \notin Players \/ argPos' \notin Labels))
        => (ret' = FALSE /\ board' = board)
      ]_vars

\* C7 witness: an invalid player was refused on an Empty cell of a board that
\* already holds marks.
C7_Witness ==
    /\ Moved(FALSE)
    /\ argPlayer \notin Players
    /\ argPos \in Labels
    /\ board[argPos] = "Empty"
    /\ \E p \in Labels : board[p] # "Empty"

\* C8: inside take_turn, a process_turn that returns false leaves the turn
\* counter, the State, the player and the nine cells as they are; the turn
\* counter and the State change only in a step whose process_turn returned
\* true.
C8_RejectedMoveNoEffect ==
    [][ /\ (op' = "process_turn" /\ ret' = FALSE)
           => /\ UNCHANGED <<turn, state, player, board>>
              /\ get_player(turn') = get_player(turn)
        /\ (turn' # turn \/ state' # state)
           => (op' = "process_turn" /\ ret' = TRUE)
      ]_vars

\* C8 witness: take_turn is in its loop after a move to an occupied cell was
\* refused, a game being under way.
C8_Witness ==
    /\ pc = "loop"
    /\ Moved(FALSE)
    /\ argPos \in Labels
    /\ board[argPos] # "Empty"
    /\ state = "InProgress"
    /\ turn > 1

\* C9: as long as no line is fully marked by one player the State is neither
\* VictoryO nor VictoryX, and once the board is full with no such line the
\* State is Stalemate.
C9_NoLineStalemate ==
    ~AnyLine(board)
    => /\ state \notin {"VictoryO", "VictoryX"}
       /\ Full(board) => state = "Stalemate"

\* C9 witness: nine accepted moves filled the board with no line fully marked.
C9_Witness ==
    /\ pc = "idle"
    /\ Full(board)
    /\ ~AnyLine(board)
    /\ turn = 10
    /\ state = "Stalemate"

\* C10: scenario B played in the listed order holds no three-in-a-row, has
\* all 9 moves accepted (the game is in progress until the 9th) and ends
\* with Stalemate.
C10_ScenarioB ==
    scenB \in 1..9
    => /\ ~AnyLine(board)
       /\ scenB < 9 => state = "InProgress"
       /\ scenB = 9 => state = "Stalemate"

\* C10 amended: scenario B played in the listed order holds no line up to its
\* 6th move; its 7th move (X a2) completes the diagonal a2-b1-c0 for X, the
\* State is then a victory with the turn counter at 8, and the caller protocol
\* plays no 8th move.
C10_ScenarioB_Amended ==
    /\ scenB \in 1..6 => (~AnyLine(board) /\ state = "InProgress")
    /\ scenB = 7 => /\ Owns(board, 8, "X")
                    /\ state \in {"VictoryO", "VictoryX"}
                    /\ turn = 8
    /\ scenB <= 7

\* C10 witness: the 7th move of scenario B has been accepted.
C10_Witness ==
    scenB = 7 /\ pc = "idle"

\* the number of cells of board b that hold the value m
Count(b, m) == Cardinality({p \in Labels : b[p] = m})

\* the number of lines of board b fully marked by one player
LineCount(b) == Cardinality({i \in 1..8 : Marked(b, i)})

\* C11: take_turn calls process_turn with 'o' or 'x' only, and the mark an
\* accepted move writes is X when the turn counter is odd and O when it is
\* even; the counter then grows by one, so the marks written alternate X, O,
\* X, ... from X on turn 1.
C11_MarksAlternate ==
    [][ /\ op' = "process_turn" => argPlayer' \in Players
        /\ board' # board
           => /\ turn' = turn + 1
              /\ \E p \in Labels :
                    /\ board[p] = "Empty"
                    /\ board'[p] = IF turn % 2 = 1 THEN "X" ELSE "O"
                    /\ \A q \in Labels \ {p} : board'[q] = board[q]
      ]_vars

\* C11 witness: O's second move, on turn 4, has been accepted.
C11_Witness ==
    /\ Moved(TRUE)
    /\ argPlayer = "o"
    /\ turn = 5
    /\ Count(board, "X") = 2
    /\ Count(board, "O") = 2

C13_GameTerminates ==
    /\ <>(state # "InProgress")
    /\ [](turn <= 10 /\ (turn = 10 => state # "InProgress"))

\* C13 witness: a game has ended by a victory on its fifth accepted move.
C13_Witness ==
    /\ pc = "idle"
    /\ state \in {"VictoryO", "VictoryX"}
    /\ turn = 6

\* C14: in every board reached under the caller protocol at most one of the
\* eight lines is fully marked.
C14_AtMostOneLine ==
    LineCount(board) <= 1

\* C14 amended: in every board reached under the caller protocol at most two
\* of the eight lines are fully marked.
C14_AtMostTwoLines ==
    LineCount(board) <= 2

\* C14 witness: X's fifth move, b1, the 9th of the game, completed both
\* diagonals at once, no line having been marked before it.
C14_Witness ==
    /\ pc = "idle"
    /\ Moved(TRUE)
    /\ argPos = "b1"
    /\ Full(board)
    /\ Owns(board, 7, "X")
    /\ Owns(board, 8, "X")
    /\ LineCount(board) = 2

\* C15: whenever the State is VictoryX some line is fully marked with X, and
\* whenever it is VictoryO some line is fully marked with O.
C15_VictorySound ==
    /\ state = "VictoryX" => \E i \in 1..8 : Owns(board, i, "X")
    /\ state = "VictoryO" => \E i \in 1..8 : Owns(board, i, "O")

\* C16: the turn counter is 1 plus the number of non-Empty cells; it exceeds 9
\* exactly when all nine cells are filled.
C16_TurnCountsMarks ==
    /\ turn = 1 + (9 - Count(board, "Empty"))
    /\ turn > 9 <=> Full(board)

\* C16 witness: on the full board, at turn 10, take_turn was called again and
\* a move was refused.
C16_Witness ==
    /\ pc = "loop"
    /\ Moved(FALSE)
    /\ Full(board)
    /\ turn = 10

\* C17: while the State is InProgress the board has an Empty cell, so inside
\* take_turn's loop some input is accepted by process_turn.
C17_InProgressHasEmptyCell ==
    state = "InProgress"
    => /\ \E p \in Labels : board[p] = "Empty"
       /\ pc = "loop" => \E position \in Positions :
                            process_turn(board, player, position).ret

\* C17 witness: take_turn is in its loop on the 9th turn of a game in
\* progress, one cell being Empty.
C17_Witness ==
    /\ pc = "loop"
    /\ state = "InProgress"
    /\ turn = 9
    /\ Count(board, "Empty") = 1

\* C18: a process_turn that returns true changes the cell its position names
\* and no other cell; get_state and draw change no cell; no cell changes
\* otherwise.
C18_OneCellChanged ==
    [][ /\ board' # board
           => /\ op' = "process_turn"
              /\ ret' = TRUE
              /\ argPos' \in Labels
              /\ board'[argPos'] # board[argPos']
              /\ \A q \in Labels \ {argPos'} : board'[q] = board[q]
        /\ op' \in {"get_state", "draw"} => board' = board
      ]_vars

\* C18 witness: 'o' was written on a board that held one mark.
C18_Witness ==
    /\ Moved(TRUE)
    /\ argPlayer = "o"
    /\ Count(board, "Empty") = 7

\* C19: the number of X cells minus the number of O cells is 0 when the turn
\* counter is odd and 1 when it is even.
C19_MarkBalance ==
    Count(board, "X") - Count(board, "O") = IF turn % 2 = 1 THEN 0 ELSE 1

\* C19 witness: five X and four O have been written.
C19_Witness ==
    /\ Count(board, "X") = 5
    /\ Count(board, "O") = 4
    /\ turn = 10

\* C20: under the caller protocol X and O never both own a fully marked
\* line.
C20_OneOwner ==
    ~( /\ \E i \in 1..8 : Owns(board, i, "X")
       /\ \E i \in 1..8 : Owns(board, i, "O") )

====
